---- MODULE Spec2Model ----
(***************************************************************************)
(* Model of the rgit index updater (src/database/indexer.rs).              *)
(*                                                                         *)
(* SpecBranch models branch_index_update for one reference of one          *)
(* repository, one step per fallible section of the function and one step  *)
(* per 250-commit chunk of the history walk, so that every store state     *)
(* between two write batches is a state of the model.                      *)
(***************************************************************************)
EXTENDS Integers, Sequences, FiniteSets, TLC

\* ------------------------------------------------------------------ bounds
\* Length of one chunk of the history walk. The source uses 250
\* (revwalk.chunks(250)); the model scales it down so that walks of a few
\* commits span several write batches.
ChunkSize == 2

\* ------------------------------------------------- the git object store
\* A fixed commit graph. c1..c4 is a linear history; s1 is a side branch
\* committed before c3 and merged by m (m2, m3 follow m); t1 is a side branch
\* committed after c3 and merged by mt; u1..u3 is an unrelated history.
Commits == {"c1", "c2", "c3", "c4", "s1", "m", "m2", "m3", "t1", "mt", "u1", "u2", "u3"}

NoCommit == "none"

Parents ==
    [c \in Commits |->
        CASE c = "c1" -> {}
          [] c = "c2" -> {"c1"}
          [] c = "c3" -> {"c2"}
          [] c = "c4" -> {"c3"}
          [] c = "s1" -> {"c1"}
          [] c = "m"  -> {"c3", "s1"}
          [] c = "m2" -> {"m"}
          [] c = "m3" -> {"m2"}
          [] c = "t1" -> {"c2"}
          [] c = "mt" -> {"c3", "t1"}
          [] c = "u1" -> {}
          [] c = "u2" -> {"u1"}
          [] c = "u3" -> {"u2"}]

\* Committer timestamps, all distinct.
Time ==
    [c \in Commits |->
        CASE c = "c1" -> 1
          [] c = "c2" -> 2
          [] c = "s1" -> 3
          [] c = "c3" -> 4
          [] c = "t1" -> 5
          [] c = "c4" -> 6
          [] c = "m"  -> 7
          [] c = "mt" -> 8
          [] c = "m2" -> 9
          [] c = "m3" -> 10
          [] c = "u1" -> 11
          [] c = "u2" -> 12
          [] c = "u3" -> 13]

RECURSIVE Reach(_)
\* The commits reachable from c through parent links, c included.
Reach(c) == {c} \cup UNION {Reach(p) : p \in Parents[c]}

IsAncestor(a, b) == a \in Reach(b)

Reverse(s) == [k \in 1..Len(s) |-> s[Len(s) + 1 - k]]

RECURSIVE LimitList(_, _, _)
\* The traversal behind a sorted revwalk: repeatedly take the pending commit
\* with the newest committer time and queue its parents not yet seen.
LimitList(queue, visited, out) ==
    IF queue = {} THEN out
    ELSE LET c == CHOOSE x \in queue : \A y \in queue : Time[x] >= Time[y]
             new == Parents[c] \ visited
         IN LimitList((queue \ {c}) \cup new, visited \cup new, Append(out, c))

\* revwalk with Sort::REVERSE pushed with the reference: oldest first.
RevWalk(t) == Reverse(LimitList({t}, {t}, <<>>))

\* ------------------------------------------------------ the commit tree
\* The persisted CommitTree of the reference: the commit records by sequence
\* number, and the stored sequence counter.
EmptyTree == [commits |-> <<>>, counter |-> 0]

\* The tree that indexing a history walk into an empty tree produces.
TreeOf(walk) ==
    [commits |-> [k \in 0..(Len(walk) - 1) |-> walk[k + 1]], counter |-> Len(walk)]

Fresh(t) == TreeOf(RevWalk(t))

TreeLen(tree) == tree.counter

FetchLatestOne(tree) ==
    IF tree.counter > 0 /\ (tree.counter - 1) \in DOMAIN tree.commits
    THEN tree.commits[tree.counter - 1]
    ELSE NoCommit

DropCommits(tree) == EmptyTree

\* A write batch: the commit inserts by sequence number and the counter put.
WriteBatch(tree, batch) ==
    [commits |-> [k \in (DOMAIN tree.commits) \cup (DOMAIN batch.puts) |->
                     IF k \in DOMAIN batch.puts THEN batch.puts[k] ELSE tree.commits[k]],
     counter |-> batch.counter]


\* ------------------------------------------------------------- the state
VARIABLES
    tip,             \* git: the commit the reference points to
    commit_tree,     \* store: the CommitTree of the reference
    pc,              \* position inside branch_index_update ("idle" outside)
    force_reindex,   \* parameter of the running invocation
    latest_indexed,  \* local: the stored tip marker, NoCommit for None
    revwalk,         \* local: the commits the walk has not yielded yet
    tree_len,        \* local
    seen,            \* local
    i,               \* local
    result,          \* how the last top-level call ended
    hStart,          \* history: commit_tree when the top-level call began
    hStartTip,       \* history: tip of the last Ok index when the call began
    hPrev,           \* history: result of the call before the running one
    hStable,         \* history: the call began on an Ok index of the same tip
    hWrites,         \* history: store writes made by the top-level call
    hWalks,          \* history: history walks started by the top-level call
    hClean,          \* history: no call has ended in an error or a crash
    hIndexedTip,     \* history: tip at the last Ok return, NoCommit otherwise
    git_tags,        \* git: what each refs/tags/* name points to
    tag_tree,        \* store: the TagTree of the repository
    tag_result,      \* how the last tag_index_scan ended, "None" once git changed
    hTagStart,       \* history: tag_tree when the last tag_index_scan began
    hTagWrites,      \* history: store writes made by the last tag_index_scan
    disk,            \* file system: what git2::Repository::open gives per path
    refs,            \* git: the target of every reference, per path
    db_repos,        \* store: the id of the Repository record per path, 0 for none
    next_id,         \* store: the ids handed out by RepositoryId::new so far
    db_trees,        \* store: the CommitTree per path and reference
    db_tags,         \* store: the TagTree per path
    db_heads,        \* store: the heads list per path
    phase,           \* position inside run
    projects_list,   \* run: the paths listed in the project-list file, or NoList
    discovered,      \* update_repository_metadata: the paths still to visit
    projects,        \* the "still present" set, or NoList
    repos,           \* the repositories a pass has still to visit
    cur,             \* update_repository_reflog: the repository being indexed
    references,      \* update_repository_reflog: the references still to visit
    valid_references,\* update_repository_reflog: the names collected so far
    runs,            \* runs started
    env_steps,       \* changes made to disk and git
    faults,          \* store and git read errors injected
    hDb0,            \* history: the store when the run began
    hReflogRepos,    \* history: the repositories fetched by the reflog pass
    hOpened,         \* history: paths open_repo was called on by the reflog pass
    hEnumerated,     \* history: paths whose references were enumerated
    hRefCalls,       \* history: <<path, reference>> branch_index_update was called on
    hRefErrs,        \* history: <<path, reference>> branch_index_update failed on
    hTagRepos,       \* history: the repositories fetched by the tag pass
    hTagOpened,      \* history: paths open_repo was called on by the tag pass
    hTagScans,       \* history: paths tag_index_scan was called on
    hFlushed,        \* history: db.flush() was called
    hStoreFault,     \* history: fetch_all or delete failed in the run
    meta_refs,       \* git: the target of every reference of one repository
    meta_when,       \* git: the committer timestamp of every commit
    meta_written,    \* the metadata pass has written the repository record
    last_modified,   \* store: last_modified of the repository record
    list_file,       \* file system: the characters of the project-list file
    list_read,       \* discover_repositories has returned
    discovered_repos \* discover_repositories: the candidate paths pushed

branchVars == <<tip, commit_tree, pc, force_reindex, latest_indexed, revwalk,
                tree_len, seen, i, result, hStart, hStartTip, hPrev, hStable,
                hWrites, hWalks, hClean, hIndexedTip>>

tagVars == <<git_tags, tag_tree, tag_result, hTagStart, hTagWrites>>

envVars == <<disk, refs>>
dbVars == <<db_repos, next_id, db_trees, db_tags, db_heads>>
ctlVars == <<phase, projects_list, discovered, projects, repos, cur, references,
             valid_references>>
cntVars == <<runs, env_steps, faults>>
hRunVars == <<hDb0, hReflogRepos, hOpened, hEnumerated, hRefCalls, hRefErrs, hTagRepos,
              hTagOpened, hTagScans, hFlushed, hStoreFault>>
runVars == <<envVars, dbVars, ctlVars, cntVars, hRunVars>>

metaVars == <<meta_refs, meta_when, meta_written, last_modified>>
listVars == <<list_file, list_read, discovered_repos>>

vars == <<branchVars, tagVars, runVars, metaVars, listVars>>

\* What an action of one part leaves alone.
notBranch == <<tagVars, runVars, metaVars, listVars>>
notTags == <<branchVars, runVars, metaVars, listVars>>
notRun == <<branchVars, tagVars, metaVars, listVars>>
notMeta == <<branchVars, tagVars, runVars, listVars>>
notList == <<branchVars, tagVars, runVars, metaVars>>

locals == <<latest_indexed, revwalk, tree_len, seen, i>>
history == <<hStart, hStartTip, hPrev, hStable, hClean, hIndexedTip>>

\* ------------------------------------------- branch_index_update, pieces
\* Variant of TipIsIndexed: the comparison never succeeds.
TipIsIndexed_Never(commit, latest) == FALSE

\* line 223: the reference's tip is the stored tip marker.
TipIsIndexed(commit, latest) == commit = latest

\* Variant of IsMarker: the first commit visited is taken for the marker.
IsMarker_Always(rev, latest) == TRUE

\* Variant of IsMarker: no commit is taken for the marker.
IsMarker_Never(rev, latest) == FALSE

\* line 247: the visited commit is the stored tip marker.
IsMarker(rev, latest) == rev = latest

\* Variant of InsertSeq: the tree's length is left out.
InsertSeq_NoBase(tl, n) == n

\* line 266: the sequence number of the next insert.
InsertSeq(tl, n) == tl + n

\* Variant of CounterValue: the counter is not advanced.
CounterValue_Stale(tl, n) == tl

\* line 272: the counter persisted with a chunk.
CounterValue(tl, n) == tl + n

\* Variant of Converged: a missed marker is never detected.
Converged_Never(sn, force) == FALSE

\* line 276: the walk ended without the marker and this is not a rebuild.
Converged(sn, force) == ~sn /\ ~force

\* Variant of ForcedFlag: the re-invocation is not forced.
ForcedFlag_Unset == FALSE

\* line 286: the force_reindex argument of the re-invocation.
ForcedFlag == TRUE

RECURSIVE ProcessRevs(_, _, _, _, _, _)
\* lines 243-270: the inner loop over one chunk; puts collects the inserts
\* of the chunk's batch.
ProcessRevs(revs, latest, sn, n, tl, puts) ==
    IF revs = <<>> THEN [seen |-> sn, i |-> n, puts |-> puts]
    ELSE LET rev == Head(revs) IN
         IF ~sn /\ latest # NoCommit
         THEN ProcessRevs(Tail(revs), latest, IsMarker(rev, latest), n, tl, puts)
         ELSE ProcessRevs(Tail(revs), latest, TRUE, n + 1, tl,
                          (InsertSeq(tl, n) :> rev) @@ puts)

Min(a, b) == IF a < b THEN a ELSE b

\* lines 240-274 for the next chunk of walk: the commits taken, the batch
\* built from them and the tree after write_without_wal.
ChunkStep(walk, latest, sn, n, tl, tree) ==
    LET k == Min(ChunkSize, Len(walk))
        r == ProcessRevs(SubSeq(walk, 1, k), latest, sn, n, tl, <<>>)
        batch == [puts |-> r.puts, counter |-> CounterValue(tl, r.i)]
    IN [tree |-> WriteBatch(tree, batch), seen |-> r.seen, i |-> r.i,
        rest |-> SubSeq(walk, k + 1, Len(walk))]

RECURSIVE WalkTrace(_, _, _, _, _, _)
\* lines 240-274 for a whole walk: the trees after each write batch, and
\* seen at the end of the loop.
WalkTrace(walk, latest, sn, n, tl, tree) ==
    IF walk = <<>> THEN [trees |-> <<>>, seen |-> sn]
    ELSE LET c == ChunkStep(walk, latest, sn, n, tl, tree)
             more == WalkTrace(c.rest, latest, c.seen, c.i, tl, c.tree)
         IN [trees |-> <<c.tree>> \o more.trees, seen |-> more.seen]

RECURSIVE BranchIndexUpdate(_, _, _)
\* lines 203-291 as one call without errors: the store states the call goes
\* through, the tree it was called on first and the tree it returns on last.
BranchIndexUpdate(tree, t, force) ==
    LET dropped == IF force THEN DropCommits(tree) ELSE tree
        latest == FetchLatestOne(dropped)
    IN IF latest # NoCommit /\ TipIsIndexed(t, latest)
       THEN <<tree, dropped>>
       ELSE LET w == WalkTrace(RevWalk(t), latest, FALSE, 0, TreeLen(dropped), dropped)
                states == <<tree, dropped>> \o w.trees
            IN IF Converged(w.seen, force)
               THEN states \o BranchIndexUpdate(states[Len(states)], t, ForcedFlag)
               ELSE states

Last(s) == s[Len(s)]

\* The end of a top-level call (of the forced re-invocation too: its result
\* is returned as is, line 279).
Return(res) ==
    /\ pc' = "idle"
    /\ result' = res
    /\ hIndexedTip' = IF res = "Ok" THEN tip ELSE NoCommit
    /\ hClean' = (hClean /\ res = "Ok")
    /\ UNCHANGED <<tip, force_reindex, locals, hStart, hStartTip, hPrev, hStable, hWalks>>

\* ------------------------------------------------------------- actions
\* A push, force-push, reset or merge moves the reference.
RefUpdate ==
    /\ UNCHANGED notBranch
    /\ pc = "idle"
    /\ \E c \in Commits \ {tip} : tip' = c
    /\ UNCHANGED <<commit_tree, pc, force_reindex, locals, result, history, hWrites, hWalks>>

\* lines 183-191: the reflog pass calls branch_index_update, force_reindex = false.
BranchIndexUpdate_Call ==
    /\ UNCHANGED notBranch
    /\ pc = "idle"
    /\ pc' = "entry"
    /\ force_reindex' = FALSE
    /\ latest_indexed' = NoCommit /\ revwalk' = <<>> /\ tree_len' = 0
    /\ seen' = FALSE /\ i' = 0
    /\ result' = "Running"
    /\ hStart' = commit_tree
    /\ hStartTip' = hIndexedTip
    /\ hPrev' = result
    /\ hStable' = (result = "Ok" /\ hIndexedTip = tip)
    /\ hWrites' = 0 /\ hWalks' = 0
    /\ UNCHANGED <<tip, commit_tree, hClean, hIndexedTip>>

\* lines 214-218.
BranchIndexUpdate_Drop ==
    /\ UNCHANGED notBranch
    /\ pc = "entry"
    /\ IF force_reindex
       THEN commit_tree' = DropCommits(commit_tree) /\ hWrites' = hWrites + 1
       ELSE UNCHANGED <<commit_tree, hWrites>>
    /\ pc' = "peel"
    /\ UNCHANGED <<tip, force_reindex, locals, result, history, hWalks>>

\* line 217: drop_commits()? fails.
BranchIndexUpdate_DropFails ==
    /\ UNCHANGED notBranch
    /\ pc = "entry" /\ force_reindex
    /\ Return("Err")
    /\ UNCHANGED <<commit_tree, hWrites>>

\* lines 220-238.
BranchIndexUpdate_Peel ==
    /\ UNCHANGED notBranch
    /\ pc = "peel"
    /\ LET commit == tip
           latest == FetchLatestOne(commit_tree)
       IN IF latest # NoCommit /\ TipIsIndexed(commit, latest)
          THEN /\ Return("Ok")
               /\ UNCHANGED <<commit_tree, hWrites>>
          ELSE /\ latest_indexed' = latest
               /\ revwalk' = RevWalk(tip)
               /\ tree_len' = TreeLen(commit_tree)
               /\ seen' = FALSE
               /\ i' = 0
               /\ pc' = "chunks"
               /\ hWalks' = hWalks + 1
               /\ UNCHANGED <<tip, commit_tree, force_reindex, result, history, hWrites>>

\* lines 220, 222, 233-237: a git read or a store read fails.
BranchIndexUpdate_PeelFails ==
    /\ UNCHANGED notBranch
    /\ pc = "peel"
    /\ Return("Err")
    /\ UNCHANGED <<commit_tree, hWrites>>

\* lines 240-274: one chunk of the walk and its write batch.
BranchIndexUpdate_Chunk ==
    /\ UNCHANGED notBranch
    /\ pc = "chunks" /\ revwalk # <<>>
    /\ LET c == ChunkStep(revwalk, latest_indexed, seen, i, tree_len, commit_tree)
       IN /\ commit_tree' = c.tree
          /\ seen' = c.seen
          /\ i' = c.i
          /\ revwalk' = c.rest
    /\ hWrites' = hWrites + 1
    /\ UNCHANGED <<tip, pc, force_reindex, latest_indexed, tree_len, result, history, hWalks>>

\* lines 244, 260, 268, 272, 273: an error inside a chunk returns before the
\* batch is written.
BranchIndexUpdate_ChunkFails ==
    /\ UNCHANGED notBranch
    /\ pc = "chunks" /\ revwalk # <<>>
    /\ Return("Err")
    /\ UNCHANGED <<commit_tree, hWrites>>

\* lines 276-290.
BranchIndexUpdate_Tail ==
    /\ UNCHANGED notBranch
    /\ pc = "chunks" /\ revwalk = <<>>
    /\ IF Converged(seen, force_reindex)
       THEN /\ force_reindex' = ForcedFlag
            /\ pc' = "entry"
            /\ UNCHANGED <<tip, locals, result, history, hWalks>>
       ELSE Return("Ok")
    /\ UNCHANGED <<commit_tree, hWrites>>

\* The process is terminated inside branch_index_update.
Crash ==
    /\ UNCHANGED notBranch
    /\ pc # "idle"
    /\ Return("Crashed")
    /\ UNCHANGED <<commit_tree, hWrites>>

\* ---------------------------------------------------- tag_index_scan
\* Reference names are kept as their path components.
TagNames == {<<"refs", "tags", "v1">>, <<"refs", "tags", "v2">>, <<"refs", "tags", "v3">>}

\* What a tag reference points to: nothing (no such reference), a commit
\* (lightweight tag), or one of two annotated tag objects.
TagTargets == {"absent", "light", "annA", "annB"}

\* starts_with on reference names.
StartsWith(name, prefix) ==
    Len(name) >= Len(prefix) /\ SubSeq(name, 1, Len(prefix)) = prefix

\* line 371: reference.peel_to_tag() is Ok.
PeelsToTag(target) == target \in {"annA", "annB"}

\* line 374: the Tag record built from the tag object's tagger.
TagRecord(target) == IF target = "annA" THEN "taggerA" ELSE "taggerB"

NoTag == "none"

\* lines 338-344: the names of the git references under refs/tags/.
GitTags(git) ==
    {n \in DOMAIN git : git[n] # "absent" /\ StartsWith(n, <<"refs", "tags">>)}

\* line 345: tag_tree.list().
IndexedTags(tree) == {n \in DOMAIN tree : tree[n] # NoTag}

\* lines 362-378.
TagIndexUpdate(tree, tag_name, git) ==
    IF PeelsToTag(git[tag_name])
    THEN [tree EXCEPT ![tag_name] = TagRecord(git[tag_name])]
    ELSE tree

\* lines 381-386.
TagIndexDelete(tree, tag_name) == [tree EXCEPT ![tag_name] = NoTag]

\* Variant of TagsToInsert: every git tag is inserted again.
TagsToInsert_All(git, tree) == GitTags(git)

\* line 348: the names tag_index_update is called for.
TagsToInsert(git, tree) == GitTags(git) \ IndexedTags(tree)

\* line 354: the names tag_index_delete is called for.
TagsToDelete(git, tree) == IndexedTags(tree) \ GitTags(git)

\* lines 348-356 with the calls made for ins and del (each call touches its
\* own name only, so the order inside a loop does not matter).
TagScanApply(tree, git, ins, del) ==
    [n \in DOMAIN tree |->
        IF n \in ins THEN TagIndexUpdate(tree, n, git)[n]
        ELSE IF n \in del THEN TagIndexDelete(tree, n)[n]
        ELSE tree[n]]

\* lines 330-359, all calls succeeding.
TagIndexScan(tree, git) ==
    TagScanApply(tree, git, TagsToInsert(git, tree), TagsToDelete(git, tree))

\* The store writes of a scan that made the calls for ins and del.
TagScanWrites(git, ins, del) ==
    Cardinality({n \in ins : PeelsToTag(git[n])}) + Cardinality(del)

\* The calls a failing scan completed before the error: some of the inserts,
\* or all inserts and some of the deletes, never every call when there is one
\* (lines 340, 345, 349, 355 return the error).
FailedScans(git, tree) ==
    {c \in [ins : SUBSET TagsToInsert(git, tree), del : SUBSET TagsToDelete(git, tree)] :
        /\ (c.del # {} => c.ins = TagsToInsert(git, tree))
        /\ \/ c.ins # TagsToInsert(git, tree)
           \/ c.del # TagsToDelete(git, tree)
           \/ (TagsToInsert(git, tree) = {} /\ TagsToDelete(git, tree) = {})}

\* A tag is created, deleted, re-pointed or replaced in git.
TagRefUpdate ==
    /\ UNCHANGED notTags
    /\ \E n \in TagNames : \E t \in TagTargets \ {git_tags[n]} :
          git_tags' = [git_tags EXCEPT ![n] = t]
    /\ tag_result' = "None"
    /\ UNCHANGED <<tag_tree, hTagStart, hTagWrites>>

\* lines 318-323: tag_index_scan returns Ok.
TagIndexScan_Ok ==
    /\ UNCHANGED notTags
    /\ tag_tree' = TagIndexScan(tag_tree, git_tags)
    /\ tag_result' = "Ok"
    /\ hTagStart' = tag_tree
    /\ hTagWrites' = TagScanWrites(git_tags, TagsToInsert(git_tags, tag_tree),
                                   TagsToDelete(git_tags, tag_tree))
    /\ UNCHANGED git_tags

\* lines 318-325: tag_index_scan returns an error.
TagIndexScan_Fails ==
    /\ UNCHANGED notTags
    /\ \E c \in FailedScans(git_tags, tag_tree) :
          /\ tag_tree' = TagScanApply(tag_tree, git_tags, c.ins, c.del)
          /\ hTagWrites' = TagScanWrites(git_tags, c.ins, c.del)
    /\ tag_result' = "Err"
    /\ hTagStart' = tag_tree
    /\ UNCHANGED git_tags

\* -------------------------------------------------------------- run
\* Bounds of the run model.
MaxRuns == 2
MaxEnvSteps == 1
MaxFaults == 1

Paths == {"a", "b"}
PathOrder == <<"a", "b">>

NoPath == "none"

\* Option::None of projects_list and of the "still present" set, kept apart
\* from every set of paths.
NoList == {NoPath}

HeadMain == <<"refs", "heads", "main">>
TagV1 == <<"refs", "tags", "v1">>
NoteN == <<"refs", "notes", "n">>
RefNames == {HeadMain, TagV1, NoteN}
RefOrder == <<HeadMain, NoteN, TagV1>>

\* What a reference of the run model can point to.
RefTargets(r) ==
    IF r = HeadMain THEN {"absent", "c1", "c2"}
    ELSE IF r = TagV1 THEN {"absent", "light", "annA"}
    ELSE {"absent", "c1"}

\* line 220: reference.peel_to_commit(); the tags of the model tag c1.
PeelToCommit(target) == IF target \in {"light", "annA", "annB"} THEN "c1" ELSE target

\* The references that are pushed to, created or deleted between runs.
Pushed == {<<"a", HeadMain>>, <<"a", TagV1>>, <<"b", HeadMain>>}

\* lines 175-179: the references the reflog pass indexes.
IsIndexed(reference_name) ==
    StartsWith(reference_name, <<"refs", "heads">>) \/ StartsWith(reference_name, <<"refs", "tags">>)

\* The members of a set of paths (of reference names) as a list.
PathSeq(S) == SelectSeq(PathOrder, LAMBDA x : x \in S)
RefSeq(S) == SelectSeq(RefOrder, LAMBDA x : x \in S)

\* git_repository.references(): the references that exist.
References(p) == {r \in RefNames : refs[p][r] # "absent"}

NoTrees == [r \in RefNames |-> EmptyTree]
NoTags == [r \in RefNames |-> NoTag]

\* Repository::fetch_all: the paths that have a record.
FetchAll == {p \in Paths : db_repos[p] # 0}

\* The store as one value.
Db == [repos |-> db_repos, trees |-> db_trees, tags |-> db_tags, heads |-> db_heads]

\* The index state of one path in a store value.
IndexState(db, p) ==
    [id |-> db.repos[p], trees |-> db.trees[p], tags |-> db.tags[p], heads |-> db.heads[p]]

\* Repository::delete: the record, the commit trees, the tags and the heads
\* of the path are removed.
Delete(p) ==
    /\ db_repos' = [db_repos EXCEPT ![p] = 0]
    /\ db_trees' = [db_trees EXCEPT ![p] = NoTrees]
    /\ db_tags' = [db_tags EXCEPT ![p] = NoTags]
    /\ db_heads' = [db_heads EXCEPT ![p] = {}]
    /\ UNCHANGED next_id

\* Variant of GoneFromProjects: the set is never consulted.
GoneFromProjects_Never(p, prj) == FALSE

\* lines 396-406: the path is gone from the "still present" set.
GoneFromProjects(p, prj) == prj # NoList /\ p \notin prj

\* lines 389-424: what open_repo does for a path.
OpenRepo(p, prj) ==
    IF GoneFromProjects(p, prj) THEN "delete"
    ELSE IF disk[p] = "ok" THEN "open"
    ELSE IF disk[p] = "absent" THEN "delete"
    ELSE "skip"

\* line 90: the path joins the "still present" set when there is one.
ProjectsInsert(prj, p) == IF prj = NoList THEN prj ELSE prj \cup {p}

CanFault == faults < MaxFaults

\* The disk or the references of a repository change between two runs.
DiskChange ==
    /\ UNCHANGED notRun
    /\ phase = "idle" /\ env_steps < MaxEnvSteps /\ 0 < runs /\ runs < MaxRuns
    /\ \E p \in Paths : \E d \in {"ok", "absent", "error"} \ {disk[p]} :
          disk' = [disk EXCEPT ![p] = d]
    /\ env_steps' = env_steps + 1
    /\ UNCHANGED <<refs, dbVars, ctlVars, runs, faults, hRunVars>>

GitChange ==
    /\ UNCHANGED notRun
    /\ phase = "idle" /\ env_steps < MaxEnvSteps /\ 0 < runs /\ runs < MaxRuns
    /\ \E pr \in Pushed : \E t \in RefTargets(pr[2]) \ {refs[pr[1]][pr[2]]} :
          refs' = [refs EXCEPT ![pr[1]][pr[2]] = t]
    /\ env_steps' = env_steps + 1
    /\ UNCHANGED <<disk, dbVars, ctlVars, runs, faults, hRunVars>>

\* A repository directory is moved to a path where there is none; its
\* references move with it.
Rename ==
    /\ UNCHANGED notRun
    /\ phase = "idle" /\ env_steps < MaxEnvSteps /\ 0 < runs /\ runs < MaxRuns
    /\ \E old \in Paths : \E new \in Paths :
          /\ disk[old] = "ok" /\ disk[new] = "absent"
          /\ disk' = [disk EXCEPT ![old] = "absent", ![new] = "ok"]
          /\ refs' = [refs EXCEPT ![new] = refs[old]]
    /\ env_steps' = env_steps + 1
    /\ UNCHANGED <<dbVars, ctlVars, runs, faults, hRunVars>>

\* The project-list arguments run is called with: none, a file that lists
\* every path, a file that lacks one.
ProjectLists == {NoList, {"a", "b"}, {"a"}}

\* lines 26-32 and 51-57: run is called, without a project-list (recursive
\* discovery finds the directories on disk) or with one.
Run_Start ==
    /\ UNCHANGED notRun
    /\ phase = "idle" /\ runs < MaxRuns
    /\ \E pl \in ProjectLists :
          /\ projects_list' = pl
          /\ discovered' = IF pl = NoList
                           THEN PathSeq({p \in Paths : disk[p] # "absent"})
                           ELSE PathSeq(pl)
          /\ projects' = IF pl = NoList THEN NoList ELSE {}
    /\ phase' = "metadata"
    /\ runs' = runs + 1
    /\ hDb0' = Db
    /\ hReflogRepos' = {} /\ hOpened' = {} /\ hEnumerated' = {} /\ hRefCalls' = {} /\ hRefErrs' = {}
    /\ hTagRepos' = {} /\ hTagOpened' = {} /\ hTagScans' = {}
    /\ hFlushed' = FALSE /\ hStoreFault' = FALSE
    /\ UNCHANGED <<envVars, dbVars, repos, cur, references, valid_references, env_steps, faults>>

\* Variant of ResolveId: a new id whatever is stored.
ResolveId_AlwaysNew(stored, fresh) == fresh

\* line 65: the id of the stored record, a new one when there is no record
\* (0 stands for no record).
ResolveId(stored, fresh) == IF stored = 0 THEN fresh ELSE stored

\* lines 59-109 for one discovered repository that opens.
Metadata_Upsert ==
    /\ UNCHANGED notRun
    /\ phase = "metadata" /\ discovered # <<>>
    /\ LET p == Head(discovered)
           isNew == db_repos[p] = 0
           id == ResolveId(db_repos[p], next_id + 1)
       IN /\ disk[p] = "ok"
          /\ projects' = ProjectsInsert(projects, p)
          /\ db_repos' = [db_repos EXCEPT ![p] = id]
          /\ next_id' = IF isNew THEN next_id + 1 ELSE next_id
    /\ discovered' = Tail(discovered)
    /\ UNCHANGED <<envVars, db_trees, db_tags, db_heads, phase, projects_list, repos, cur,
                   references, valid_references, cntVars, hRunVars>>

\* lines 83-89: the repository does not open; skipped before line 90.
Metadata_OpenFails ==
    /\ UNCHANGED notRun
    /\ phase = "metadata" /\ discovered # <<>>
    /\ LET p == Head(discovered)
       IN /\ disk[p] # "ok"
          /\ next_id' = IF db_repos[p] = 0 THEN next_id + 1 ELSE next_id
    /\ discovered' = Tail(discovered)
    /\ UNCHANGED <<envVars, db_repos, db_trees, db_tags, db_heads, phase, projects_list,
                   projects, repos, cur, references, valid_references, cntVars,
                   hDb0, hReflogRepos, hOpened, hEnumerated, hRefCalls, hRefErrs, hTagRepos,
                   hTagOpened, hTagScans, hFlushed, hStoreFault>>

\* lines 64-73: the lookup of the record fails; skipped.
Metadata_LookupFails ==
    /\ UNCHANGED notRun
    /\ phase = "metadata" /\ discovered # <<>> /\ CanFault
    /\ discovered' = Tail(discovered)
    /\ faults' = faults + 1
    /\ UNCHANGED <<envVars, dbVars, phase, projects_list, projects, repos, cur, references,
                   valid_references, runs, env_steps,
                   hDb0, hReflogRepos, hOpened, hEnumerated, hRefCalls, hRefErrs, hTagRepos,
                   hTagOpened, hTagScans, hFlushed, hStoreFault>>

\* lines 104-108: the repository opens but the insert of the record fails.
Metadata_InsertFails ==
    /\ UNCHANGED notRun
    /\ phase = "metadata" /\ discovered # <<>> /\ CanFault
    /\ LET p == Head(discovered)
       IN /\ disk[p] = "ok"
          /\ projects' = ProjectsInsert(projects, p)
          /\ next_id' = IF db_repos[p] = 0 THEN next_id + 1 ELSE next_id
    /\ discovered' = Tail(discovered)
    /\ faults' = faults + 1
    /\ UNCHANGED <<envVars, db_repos, db_trees, db_tags, db_heads, phase, projects_list,
                   repos, cur, references, valid_references, runs, env_steps,
                   hDb0, hReflogRepos, hOpened, hEnumerated, hRefCalls, hRefErrs, hTagRepos,
                   hTagOpened, hTagScans, hFlushed, hStoreFault>>

\* line 111: the metadata pass returns the set; line 33.
Metadata_Done ==
    /\ UNCHANGED notRun
    /\ phase = "metadata" /\ discovered = <<>>
    /\ phase' = "reflog_fetch"
    /\ UNCHANGED <<envVars, dbVars, projects_list, discovered, projects, repos, cur,
                   references, valid_references, cntVars, hRunVars>>

\* Variant of RemainingAfterError: the error ends the loop.
RemainingAfterError_Abort(rest) == <<>>

\* lines 191-193, 165-168, 324-325: a local error is logged and the loop goes
\* on with what is left.
RemainingAfterError(rest) == rest

\* lines 144-150: the reflog pass fetches the repository records.
Reflog_FetchAll ==
    /\ UNCHANGED notRun
    /\ phase = "reflog_fetch"
    /\ repos' = PathSeq(FetchAll)
    /\ hReflogRepos' = FetchAll
    /\ phase' = "reflog"
    /\ UNCHANGED <<envVars, dbVars, projects_list, discovered, projects, cur, references,
                   valid_references, cntVars, hDb0, hOpened, hEnumerated, hRefCalls, hRefErrs,
                   hTagRepos, hTagOpened, hTagScans, hFlushed, hStoreFault>>

\* lines 146-149: fetch_all fails and the pass returns.
Reflog_FetchAllFails ==
    /\ UNCHANGED notRun
    /\ phase = "reflog_fetch" /\ CanFault
    /\ phase' = "tags_fetch"
    /\ faults' = faults + 1
    /\ hStoreFault' = TRUE
    /\ UNCHANGED <<envVars, dbVars, projects_list, discovered, projects, repos, cur,
                   references, valid_references, runs, env_steps, hDb0, hReflogRepos,
                   hOpened, hEnumerated, hRefCalls, hRefErrs, hTagRepos, hTagOpened, hTagScans,
                   hFlushed>>

\* Variant of NewValidReferences: the collection starts from the stored list.
NewValidReferences_Stored(heads) == heads

\* line 171: valid_references starts empty for every repository, whatever
\* the stored heads list holds.
NewValidReferences(heads) == {}

\* lines 152-171: the next repository of the reflog pass goes through
\* open_repo and, when it opens, has its references enumerated.
Reflog_OpenRepo ==
    /\ UNCHANGED notRun
    /\ phase = "reflog" /\ cur = NoPath /\ repos # <<>>
    /\ LET p == Head(repos)
           act == OpenRepo(p, projects)
       IN /\ IF act = "delete" THEN Delete(p) ELSE UNCHANGED dbVars
          /\ IF act = "open"
             THEN /\ cur' = p
                  /\ references' = RefSeq(References(p))
                  /\ valid_references' = NewValidReferences(db_heads[p])
                  /\ hEnumerated' = hEnumerated \cup {p}
             ELSE UNCHANGED <<cur, references, valid_references, hEnumerated>>
          /\ hOpened' = hOpened \cup {p}
    /\ repos' = Tail(repos)
    /\ UNCHANGED <<envVars, phase, projects_list, discovered, projects, cntVars, hDb0,
                   hReflogRepos, hRefCalls, hRefErrs, hTagRepos, hTagOpened, hTagScans, hFlushed,
                   hStoreFault>>

\* lines 400-402, 413-415: open_repo, called by either pass, wants the index
\* deleted and the delete fails.
OpenRepo_DeleteFails ==
    /\ UNCHANGED notRun
    /\ phase \in {"reflog", "tags"} /\ cur = NoPath /\ repos # <<>> /\ CanFault
    /\ OpenRepo(Head(repos), projects) = "delete"
    /\ hOpened' = IF phase = "reflog" THEN hOpened \cup {Head(repos)} ELSE hOpened
    /\ hTagOpened' = IF phase = "tags" THEN hTagOpened \cup {Head(repos)} ELSE hTagOpened
    /\ repos' = Tail(repos)
    /\ faults' = faults + 1
    /\ hStoreFault' = TRUE
    /\ UNCHANGED <<envVars, dbVars, phase, projects_list, discovered, projects, cur,
                   references, valid_references, runs, env_steps, hDb0, hReflogRepos,
                   hEnumerated, hRefCalls, hRefErrs, hTagRepos, hTagScans, hFlushed>>

\* lines 163-169: the repository opens and references() fails.
Reflog_ReferencesFail ==
    /\ UNCHANGED notRun
    /\ phase = "reflog" /\ cur = NoPath /\ repos # <<>> /\ CanFault
    /\ OpenRepo(Head(repos), projects) = "open"
    /\ hOpened' = hOpened \cup {Head(repos)}
    /\ repos' = RemainingAfterError(Tail(repos))
    /\ faults' = faults + 1
    /\ UNCHANGED <<envVars, dbVars, phase, projects_list, discovered, projects, cur,
                   references, valid_references, runs, env_steps, hDb0, hReflogRepos,
                   hEnumerated, hRefCalls, hRefErrs, hTagRepos, hTagOpened, hTagScans, hFlushed,
                   hStoreFault>>

\* Variant of Push: the name is not collected.
Push_Skip(names, reference_name) == names

\* line 181: valid_references.push(reference_name).
Push(names, reference_name) == names \cup {reference_name}

\* lines 173-194: the next reference, branch_index_update returning Ok.
Reflog_Reference ==
    /\ UNCHANGED notRun
    /\ phase = "reflog" /\ cur # NoPath /\ references # <<>>
    /\ LET reference_name == Head(references)
       IN IF ~IsIndexed(reference_name)
          THEN UNCHANGED <<db_trees, valid_references, hRefCalls>>
          ELSE /\ valid_references' = Push(valid_references, reference_name)
               /\ db_trees' = [db_trees EXCEPT ![cur][reference_name] =
                     Last(BranchIndexUpdate(@, PeelToCommit(refs[cur][reference_name]), FALSE))]
               /\ hRefCalls' = hRefCalls \cup {<<cur, reference_name>>}
    /\ references' = Tail(references)
    /\ UNCHANGED hRefErrs
    /\ UNCHANGED <<envVars, db_repos, next_id, db_tags, db_heads, phase, projects_list,
                   discovered, projects, repos, cur, cntVars, hDb0, hReflogRepos, hOpened,
                   hEnumerated, hTagRepos, hTagOpened, hTagScans, hFlushed,
                   hStoreFault>>

\* lines 183-193: branch_index_update returns an error, after any number of
\* its store writes.
Reflog_ReferenceFails ==
    /\ UNCHANGED notRun
    /\ phase = "reflog" /\ cur # NoPath /\ references # <<>> /\ CanFault
    /\ LET reference_name == Head(references)
           trace == BranchIndexUpdate(db_trees[cur][reference_name],
                                      PeelToCommit(refs[cur][reference_name]), FALSE)
       IN /\ IsIndexed(reference_name)
          /\ valid_references' = Push(valid_references, reference_name)
          /\ \E k \in 1..Len(trace) :
                db_trees' = [db_trees EXCEPT ![cur][reference_name] = trace[k]]
          /\ hRefCalls' = hRefCalls \cup {<<cur, reference_name>>}
          /\ hRefErrs' = hRefErrs \cup {<<cur, reference_name>>}
    /\ references' = RemainingAfterError(Tail(references))
    /\ faults' = faults + 1
    /\ UNCHANGED <<envVars, db_repos, next_id, db_tags, db_heads, phase, projects_list,
                   discovered, projects, repos, cur, runs, env_steps, hDb0, hReflogRepos,
                   hOpened, hEnumerated, hTagRepos, hTagOpened, hTagScans, hFlushed,
                   hStoreFault>>

\* Repository::replace_heads: the stored list becomes the names given.
ReplaceHeads(heads, names) == names

\* lines 196-198: the names collected replace the heads list.
Reflog_ReplaceHeads ==
    /\ UNCHANGED notRun
    /\ phase = "reflog" /\ cur # NoPath /\ references = <<>>
    /\ db_heads' = [db_heads EXCEPT ![cur] = ReplaceHeads(@, valid_references)]
    /\ cur' = NoPath
    /\ UNCHANGED <<envVars, db_repos, next_id, db_trees, db_tags, phase, projects_list,
                   discovered, projects, repos, references, valid_references, cntVars,
                   hRunVars>>

\* lines 196-198: replace_heads fails.
Reflog_ReplaceHeadsFails ==
    /\ UNCHANGED notRun
    /\ phase = "reflog" /\ cur # NoPath /\ references = <<>> /\ CanFault
    /\ cur' = NoPath
    /\ faults' = faults + 1
    /\ UNCHANGED <<envVars, dbVars, phase, projects_list, discovered, projects, repos,
                   references, valid_references, runs, env_steps, hDb0, hReflogRepos,
                   hOpened, hEnumerated, hRefCalls, hRefErrs, hTagRepos, hTagOpened, hTagScans,
                   hFlushed, hStoreFault>>

\* line 200: the reflog pass returns; line 34.
Reflog_Done ==
    /\ UNCHANGED notRun
    /\ phase = "reflog" /\ cur = NoPath /\ repos = <<>>
    /\ phase' = "tags_fetch"
    /\ UNCHANGED <<envVars, dbVars, projects_list, discovered, projects, repos, cur,
                   references, valid_references, cntVars, hRunVars>>

\* lines 299-305: the tag pass fetches the repository records.
Tags_FetchAll ==
    /\ UNCHANGED notRun
    /\ phase = "tags_fetch"
    /\ repos' = PathSeq(FetchAll)
    /\ hTagRepos' = FetchAll
    /\ phase' = "tags"
    /\ UNCHANGED <<envVars, dbVars, projects_list, discovered, projects, cur, references,
                   valid_references, cntVars, hDb0, hReflogRepos, hOpened, hEnumerated,
                   hRefCalls, hRefErrs, hTagOpened, hTagScans, hFlushed, hStoreFault>>

\* lines 301-304: fetch_all fails and the pass returns.
Tags_FetchAllFails ==
    /\ UNCHANGED notRun
    /\ phase = "tags_fetch" /\ CanFault
    /\ phase' = "flush"
    /\ faults' = faults + 1
    /\ hStoreFault' = TRUE
    /\ UNCHANGED <<envVars, dbVars, projects_list, discovered, projects, repos, cur,
                   references, valid_references, runs, env_steps, hDb0, hReflogRepos,
                   hOpened, hEnumerated, hRefCalls, hRefErrs, hTagRepos, hTagOpened, hTagScans,
                   hFlushed>>

\* lines 307-326: the next repository of the tag pass goes through open_repo
\* and, when it opens, tag_index_scan returns Ok.
Tags_Repo ==
    /\ UNCHANGED notRun
    /\ phase = "tags" /\ repos # <<>>
    /\ LET p == Head(repos)
           act == OpenRepo(p, projects)
       IN /\ IF act = "delete" THEN Delete(p)
             ELSE IF act = "open"
             THEN /\ db_tags' = [db_tags EXCEPT ![p] = TagIndexScan(@, refs[p])]
                  /\ UNCHANGED <<db_repos, next_id, db_trees, db_heads>>
             ELSE UNCHANGED dbVars
          /\ hTagScans' = IF act = "open" THEN hTagScans \cup {p} ELSE hTagScans
          /\ hTagOpened' = hTagOpened \cup {p}
    /\ repos' = Tail(repos)
    /\ UNCHANGED <<envVars, phase, projects_list, discovered, projects, cur, references,
                   valid_references, cntVars, hDb0, hReflogRepos, hOpened, hEnumerated,
                   hRefCalls, hRefErrs, hTagRepos, hFlushed, hStoreFault>>

\* lines 318-325: tag_index_scan returns an error.
Tags_ScanFails ==
    /\ UNCHANGED notRun
    /\ phase = "tags" /\ repos # <<>> /\ CanFault
    /\ LET p == Head(repos)
       IN /\ OpenRepo(p, projects) = "open"
          /\ \E c \in FailedScans(refs[p], db_tags[p]) :
                db_tags' = [db_tags EXCEPT ![p] = TagScanApply(@, refs[p], c.ins, c.del)]
          /\ hTagScans' = hTagScans \cup {p}
          /\ hTagOpened' = hTagOpened \cup {p}
    /\ repos' = RemainingAfterError(Tail(repos))
    /\ faults' = faults + 1
    /\ UNCHANGED <<envVars, db_repos, next_id, db_trees, db_heads, phase, projects_list,
                   discovered, projects, cur, references, valid_references, runs, env_steps,
                   hDb0, hReflogRepos, hOpened, hEnumerated, hRefCalls, hRefErrs, hTagRepos, hFlushed,
                   hStoreFault>>

\* line 327: the tag pass returns; line 36.
Tags_Done ==
    /\ UNCHANGED notRun
    /\ phase = "tags" /\ repos = <<>>
    /\ phase' = "flush"
    /\ UNCHANGED <<envVars, dbVars, projects_list, discovered, projects, repos, cur,
                   references, valid_references, cntVars, hRunVars>>

\* lines 36-42: db.flush() is called, whatever it returns.
Run_Flush ==
    /\ UNCHANGED notRun
    /\ phase = "flush"
    /\ hFlushed' = TRUE
    /\ phase' = "done"
    /\ UNCHANGED <<envVars, dbVars, projects_list, discovered, projects, repos, cur,
                   references, valid_references, cntVars, hDb0, hReflogRepos, hOpened,
                   hEnumerated, hRefCalls, hRefErrs, hTagRepos, hTagOpened, hTagScans,
                   hStoreFault>>

\* line 43: run returns.
Run_Return ==
    /\ UNCHANGED notRun
    /\ phase = "done"
    /\ phase' = "idle"
    /\ UNCHANGED <<envVars, dbVars, projects_list, discovered, projects, repos, cur,
                   references, valid_references, cntVars, hRunVars>>

\* ------------------------------------------- find_last_committed_time
\* The largest committer timestamp of the model, in seconds since the epoch
\* (-1 is a time before the epoch).
MaxTime == 2

Times == -1..MaxTime

\* line 119: OffsetDateTime::UNIX_EPOCH.
Epoch == 0

\* The commits of the repository: the linear history c1, c2, c3.
MetaCommits == {"c1", "c2", "c3"}

MetaRefOrder == <<HeadMain, TagV1>>

\* What a reference points to: nothing (no such reference), an object that
\* does not peel to a commit, or a commit.
MetaTargets == {"absent", "tree"} \cup MetaCommits

\* line 122: reference.peel_to_commit() is Ok.
PeelsToCommit(target) == target \in MetaCommits

\* line 121: repo.references(), as the list of the targets.
MetaReferences(git) ==
    SelectSeq([k \in 1..Len(MetaRefOrder) |-> git[MetaRefOrder[k]]], LAMBDA t : t # "absent")

RECURSIVE FindLastCommittedTime(_, _, _)
\* lines 121-135: the loop over the references; targets are the references
\* left, timestamp the running maximum.
FindLastCommittedTime(targets, when, timestamp) ==
    IF targets = <<>> THEN timestamp
    ELSE IF ~PeelsToCommit(Head(targets))
         THEN FindLastCommittedTime(Tail(targets), when, timestamp)
         ELSE LET committed_time == when[Head(targets)]
              IN FindLastCommittedTime(Tail(targets), when,
                     IF committed_time > timestamp THEN committed_time ELSE timestamp)

\* lines 97-98: last_modified of the record; the epoch when
\* find_last_committed_time returns an error (readable is FALSE).
LastModified(readable, git, when) ==
    IF readable THEN FindLastCommittedTime(MetaReferences(git), when, Epoch) ELSE Epoch

\* lines 92-104: the metadata pass writes the record of the repository.
Metadata_Record ==
    /\ UNCHANGED notMeta
    /\ meta_written = "no"
    /\ \E readable \in BOOLEAN :
          /\ last_modified' = LastModified(readable, meta_refs, meta_when)
          /\ meta_written' = IF readable THEN "read" ELSE "unreadable"
    /\ UNCHANGED <<meta_refs, meta_when>>

\* ------------------------------------------------ discover_repositories
\* The longest project-list file of the model, in characters.
MaxFileLen == 4

\* The newline character.
LF == "LF"

\* The characters of a project-list file.
Chars == {"a", "r", LF}

Files == UNION {[1..n -> Chars] : n \in 0..MaxFileLen}

\* The scan root, as the characters of its path.
Root == <<"s", "/">>

\* line 446: read_line fills the buffer with the characters up to and
\* including the next newline, or up to the end of the file.
ReadLine(f) ==
    IF \E k \in 1..Len(f) : f[k] = LF
    THEN SubSeq(f, 1, CHOOSE k \in 1..Len(f) : f[k] = LF /\ \A j \in 1..(k - 1) : f[j] # LF)
    ELSE f

RECURSIVE Buffers(_)
\* lines 444-453: the buffers of the successive read_line calls until Ok(0).
Buffers(f) ==
    IF f = <<>> THEN <<>>
    ELSE <<ReadLine(f)>> \o Buffers(SubSeq(f, Len(ReadLine(f)) + 1, Len(f)))

\* str::strip_suffix: the string without the suffix in a one-element list
\* (Some), or the empty list (None).
StripSuffix(str, c) ==
    IF str # <<>> /\ str[Len(str)] = c THEN <<SubSeq(str, 1, Len(str) - 1)>> ELSE <<>>

\* lines 454-456.
Line(buffer) ==
    IF StripSuffix(buffer, LF) = <<>> THEN buffer
    ELSE LET line == StripSuffix(buffer, LF)[1]
         IN IF StripSuffix(line, "r") = <<>> THEN line ELSE StripSuffix(line, "r")[1]

\* line 457: current.join(line), for a relative fragment.
Join(current, line) == current \o line

\* lines 443-458: the candidates of the first n buffers.
Candidates(f, n) == [k \in 1..n |-> Join(Root, Line(Buffers(f)[k]))]

\* lines 435-458: the list file is read to its end.
Discover_List ==
    /\ UNCHANGED notList
    /\ list_read = "no"
    /\ discovered_repos' = Candidates(list_file, Len(Buffers(list_file)))
    /\ list_read' = "read"
    /\ UNCHANGED list_file

\* lines 436-441 and 449-452: the file does not open, or read_line fails
\* after some lines.
Discover_ListFails ==
    /\ UNCHANGED notList
    /\ list_read = "no"
    /\ \E n \in 0..Len(Buffers(list_file)) :
          discovered_repos' = Candidates(list_file, n)
    /\ list_read' = "failed"
    /\ UNCHANGED list_file

\* --------------------------------------------------------- specifications
\* The store before the first run, and the references of the repositories.
StoreIdle ==
    /\ refs = [p \in Paths |-> [r \in RefNames |->
                  IF r = HeadMain THEN "c1"
                  ELSE IF p = "a" /\ r = TagV1 THEN "annA"
                  ELSE IF p = "a" /\ r = NoteN THEN "c1"
                  ELSE "absent"]]
    /\ db_repos = [p \in Paths |-> 0]
    /\ next_id = 0
    /\ db_trees = [p \in Paths |-> NoTrees]
    /\ db_tags = [p \in Paths |-> NoTags]
    /\ db_heads = [p \in Paths |-> {}]
    /\ phase = "idle"
    /\ projects_list = NoList
    /\ discovered = <<>>
    /\ projects = NoList
    /\ repos = <<>>
    /\ cur = NoPath
    /\ references = <<>>
    /\ valid_references = {}
    /\ runs = 0 /\ env_steps = 0 /\ faults = 0
    /\ hDb0 = Db
    /\ hReflogRepos = {} /\ hOpened = {} /\ hEnumerated = {} /\ hRefCalls = {} /\ hRefErrs = {}
    /\ hTagRepos = {} /\ hTagOpened = {} /\ hTagScans = {}
    /\ hFlushed = FALSE /\ hStoreFault = FALSE

RunIdle ==
    /\ disk = [p \in Paths |-> "ok"]
    /\ StoreIdle

\* The directories on disk before the first run: both repositories, or the
\* first one only.
InitialDisks == {[p \in Paths |-> "ok"], [p \in Paths |-> IF p = "a" THEN "ok" ELSE "absent"]}

MetaIdle ==
    /\ meta_refs = [r \in {HeadMain, TagV1} |-> "absent"]
    /\ meta_when = [c \in MetaCommits |-> Epoch]
    /\ meta_written = "no"
    /\ last_modified = Epoch

ListIdle ==
    /\ list_file = <<>>
    /\ list_read = "no"
    /\ discovered_repos = <<>>

BranchIdle ==
    /\ tip = "c1"
    /\ commit_tree = EmptyTree
    /\ pc = "idle"
    /\ force_reindex = FALSE
    /\ latest_indexed = NoCommit /\ revwalk = <<>> /\ tree_len = 0
    /\ seen = FALSE /\ i = 0
    /\ result = "None"
    /\ hStart = EmptyTree /\ hStartTip = NoCommit /\ hPrev = "None"
    /\ hStable = FALSE /\ hWrites = 0 /\ hWalks = 0 /\ hClean = TRUE
    /\ hIndexedTip = NoCommit

TagsIdle ==
    /\ git_tags = [n \in TagNames |-> "absent"]
    /\ tag_tree = [n \in TagNames |-> NoTag]
    /\ tag_result = "None"
    /\ hTagStart = [n \in TagNames |-> NoTag]
    /\ hTagWrites = 0

TagsInit ==
    /\ BranchIdle
    /\ RunIdle
    /\ MetaIdle /\ ListIdle
    /\ git_tags \in [TagNames -> TagTargets]
    /\ tag_tree = [n \in TagNames |-> NoTag]
    /\ tag_result = "None"
    /\ hTagStart = [n \in TagNames |-> NoTag]
    /\ hTagWrites = 0

TagsNext ==
    \/ TagRefUpdate
    \/ TagIndexScan_Ok
    \/ TagIndexScan_Fails

SpecTags == TagsInit /\ [][TagsNext]_vars

BranchInit ==
    /\ tip \in {"c1", "u1"}
    /\ commit_tree = EmptyTree
    /\ pc = "idle"
    /\ force_reindex = FALSE
    /\ latest_indexed = NoCommit /\ revwalk = <<>> /\ tree_len = 0
    /\ seen = FALSE /\ i = 0
    /\ result = "None"
    /\ hStart = EmptyTree /\ hStartTip = NoCommit /\ hPrev = "None"
    /\ hStable = FALSE /\ hWrites = 0 /\ hWalks = 0 /\ hClean = TRUE
    /\ hIndexedTip = NoCommit
    /\ TagsIdle
    /\ RunIdle
    /\ MetaIdle /\ ListIdle

BranchNext ==
    \/ RefUpdate
    \/ BranchIndexUpdate_Call
    \/ BranchIndexUpdate_Drop
    \/ BranchIndexUpdate_DropFails
    \/ BranchIndexUpdate_Peel
    \/ BranchIndexUpdate_PeelFails
    \/ BranchIndexUpdate_Chunk
    \/ BranchIndexUpdate_ChunkFails
    \/ BranchIndexUpdate_Tail
    \/ Crash

SpecBranch == BranchInit /\ [][BranchNext]_vars


RunInit ==
    /\ BranchIdle /\ TagsIdle /\ MetaIdle /\ ListIdle
    /\ StoreIdle /\ disk \in InitialDisks

RunNext ==
    \/ DiskChange
    \/ GitChange
    \/ Rename
    \/ Run_Start
    \/ Metadata_Upsert
    \/ Metadata_OpenFails
    \/ Metadata_LookupFails
    \/ Metadata_InsertFails
    \/ Metadata_Done
    \/ Reflog_FetchAll
    \/ Reflog_FetchAllFails
    \/ Reflog_OpenRepo
    \/ OpenRepo_DeleteFails
    \/ Reflog_ReferencesFail
    \/ Reflog_Reference
    \/ Reflog_ReferenceFails
    \/ Reflog_ReplaceHeads
    \/ Reflog_ReplaceHeadsFails
    \/ Reflog_Done
    \/ Tags_FetchAll
    \/ Tags_FetchAllFails
    \/ Tags_Repo
    \/ Tags_ScanFails
    \/ Tags_Done
    \/ Run_Flush
    \/ Run_Return

SpecRun == RunInit /\ [][RunNext]_vars

\* find_last_committed_time on every repository of up to two references over
\* the history c1, c2, c3 with any committer timestamps.
MetaInit ==
    /\ BranchIdle /\ TagsIdle /\ RunIdle /\ ListIdle
    /\ meta_refs \in [{HeadMain, TagV1} -> MetaTargets]
    /\ meta_when \in [MetaCommits -> Times]
    /\ meta_written = "no"
    /\ last_modified = Epoch

MetaNext == Metadata_Record

SpecMeta == MetaInit /\ [][MetaNext]_vars

\* discover_repositories on every project-list file of up to MaxFileLen
\* characters.
ListInit ==
    /\ BranchIdle /\ TagsIdle /\ RunIdle /\ MetaIdle
    /\ list_file \in Files
    /\ list_read = "no"
    /\ discovered_repos = <<>>

ListNext ==
    \/ Discover_List
    \/ Discover_ListFails

SpecList == ListInit /\ [][ListNext]_vars

\* ------------------------------------------------------------- claims
\* The call that last returned did so with Ok and the reference has its tip
\* since.
IndexedOk == pc = "idle" /\ result = "Ok" /\ hIndexedTip = tip

\* C1: after reference updates each followed by a branch_index_update that
\* returns Ok, the commit tree holds at [0, counter) exactly the commits
\* reachable from the tip, in the oldest-first order of the walk, each once.
C1_TreeMirrorsTip ==
    (hClean /\ IndexedOk) => commit_tree = Fresh(tip)

\* C2: a call that begins on a successfully indexed reference whose tip has
\* not moved never reaches the walk, is not re-invoked with force_reindex,
\* writes nothing to the store and leaves tree and counter as they were.
C2_Idempotent ==
    hStable => /\ hWrites = 0
               /\ commit_tree = hStart
               /\ pc \in {"idle", "entry", "peel"}
               /\ ~force_reindex
               /\ (pc = "idle" => result \in {"Ok", "Err", "Crashed"})

C2_Witness ==
    hStable /\ pc = "idle" /\ result = "Ok" /\ commit_tree.counter > 1

\* The commits of walk that are not reachable from a, in walk order.
NewSince(walk, a) == SelectSeq(walk, LAMBDA c : c \notin Reach(a))

\* tree followed by the commits of new at the next sequence numbers.
Appended(tree, new) ==
    [commits |-> [k \in 0..(tree.counter + Len(new) - 1) |->
                     IF k < tree.counter THEN tree.commits[k]
                     ELSE new[k - tree.counter + 1]],
     counter |-> tree.counter + Len(new)]

\* C3: when the indexed tip A advances to a descendant B, the call appends
\* exactly the commits reachable from B and not from A at the sequence
\* numbers from the prior counter on, leaves the prior entries untouched and
\* ends with counter = prior counter + number of new commits.
C3_MonotonicAppend ==
    (IndexedOk /\ hStartTip # NoCommit /\ hStartTip # tip /\ IsAncestor(hStartTip, tip))
        => commit_tree = Appended(hStart, NewSince(RevWalk(tip), hStartTip))

\* C4: when the reference is moved to a commit that does not have the
\* indexed tip as an ancestor, the call does not match the marker in its
\* walk, re-invokes itself with force_reindex and ends with the tree and the
\* counter of a fresh index of the new history.
C4_ConvergenceRebuild ==
    (IndexedOk /\ hStartTip # NoCommit /\ ~IsAncestor(hStartTip, tip))
        => /\ force_reindex
           /\ hWalks = 2
           /\ commit_tree = Fresh(tip)

C4_Witness ==
    /\ IndexedOk /\ hStartTip # NoCommit /\ ~IsAncestor(hStartTip, tip)
    /\ hStart.counter > commit_tree.counter
    /\ commit_tree.counter > ChunkSize

\* The records occupy exactly the sequence numbers below the counter.
StoreDense == DOMAIN commit_tree.commits = 0..(commit_tree.counter - 1)

\* A store write either drops the tree or leaves every record in its slot.
NoOverwrite ==
    \/ commit_tree' = EmptyTree
    \/ \A k \in DOMAIN commit_tree.commits :
          k \in DOMAIN commit_tree'.commits /\ commit_tree'.commits[k] = commit_tree.commits[k]

\* C5: in every store state between write batches, crash points included,
\* the counter equals the number of records, the records occupy exactly
\* 0..counter-1, and no write batch overwrites a slot.
C5_CounterRecordAtomicity ==
    StoreDense /\ [][StoreDense' /\ NoOverwrite]_vars

\* Mid-walk of an incremental pass, after a batch that inserted records.
C5_Witness ==
    pc = "chunks" /\ revwalk # <<>> /\ tree_len > 0 /\ i > 0 /\ ~force_reindex

\* C6: the first call that returns Ok after a call that was terminated leaves
\* the tree equal to a fresh index of the reference's tip.
C6_CrashRecovery ==
    (IndexedOk /\ hPrev = "Crashed") => commit_tree = Fresh(tip)


\* C7: after tag_index_scan returns Ok, the names in the TagTree are the git
\* refs/tags/* names that peel to an annotated tag object.
C7_TagReconciliation ==
    tag_result = "Ok" => IndexedTags(tag_tree) = {n \in GitTags(git_tags) : PeelsToTag(git_tags[n])}


\* The references of p that branch_index_update was called on in this run.
CalledOn(p) == {r \in RefNames : <<p, r>> \in hRefCalls}

\* p had a record when the run began and the metadata pass of a run with a
\* project-list left it out of the "still present" set.
Dangling(p) == projects # NoList /\ hDb0.repos[p] # 0 /\ p \notin projects

\* C8: when a run with a project-list ends, a repository that had a record
\* and is not in the "still present" set has had no reference enumerated, no
\* branch_index_update and no tag_index_scan, and (unless fetch_all or the
\* delete itself failed) its record, commit trees and tags are gone.
C8_DanglingCleanup ==
    phase = "done" =>
        \A p \in Paths : Dangling(p) =>
            /\ p \notin hEnumerated /\ CalledOn(p) = {} /\ p \notin hTagScans
            /\ ~hStoreFault =>
                  /\ db_repos[p] = 0
                  /\ db_trees[p] = NoTrees
                  /\ db_tags[p] = NoTags

\* A repository that is still on disk, indexed by an earlier run, and deleted
\* because the list lacks it.
C8_Witness ==
    /\ phase = "done"
    /\ \E p \in Paths :
          /\ Dangling(p) /\ disk[p] = "ok"
          /\ hDb0.trees[p][HeadMain].counter > 0
          /\ db_repos[p] = 0 /\ db_trees[p] = NoTrees

\* C9: in a run, a repository with a stored record whose git open fails with
\* an error other than not-found is skipped and keeps its record, commit
\* trees, tags and heads.
C9_TransientKeepsIndex ==
    phase # "idle" =>
        \A p \in Paths : (disk[p] = "error" /\ hDb0.repos[p] # 0) =>
            /\ p \notin hEnumerated /\ p \notin hTagScans
            /\ IndexState(Db, p) = IndexState(hDb0, p)

\* C10: when a run ends, open_repo was called in the reflog pass on every
\* repository fetched for it, branch_index_update was called on every
\* refs/heads and refs/tags reference of every repository whose references
\* were enumerated, the tag pass called open_repo on every repository fetched
\* for it and tag_index_scan on each that opened, and flush was called,
\* whatever local errors occurred.
C10_ErrorIsolation ==
    phase = "done" =>
        /\ hOpened = hReflogRepos
        /\ \A p \in hEnumerated : CalledOn(p) = {r \in References(p) : IsIndexed(r)}
        /\ hTagOpened = hTagRepos
        /\ hTagScans = {p \in hTagRepos : OpenRepo(p, projects) = "open"}
        /\ hFlushed

\* A run in which branch_index_update failed on the first reference of a
\* repository that has a later one, and which went on to the other
\* repository and to the tag pass.
C10_Witness ==
    /\ phase = "done" /\ hFlushed
    /\ <<"a", HeadMain>> \in hRefErrs
    /\ <<"a", TagV1>> \in hRefCalls
    /\ "b" \in hEnumerated
    /\ hTagScans = {"a", "b"}

\* The refs/heads/* and refs/tags/* references of p that exist in git.
Observed(p) ==
    {r \in RefNames : refs[p][r] # "absent" /\ r[1] = "refs" /\ r[2] \in {"heads", "tags"}}

\* The step of the reflog pass in which replace_heads returns Ok.
HeadsReplaced == phase = "reflog" /\ cur # NoPath /\ cur' = NoPath /\ faults' = faults

\* C11: when the reflog pass has gone through the references of a repository
\* and replace_heads succeeds, the stored heads list of the repository is
\* exactly the refs/heads/* and refs/tags/* names that exist in git, the
\* references branch_index_update failed on included, whatever the list held
\* before.
C11_HeadReconciliation ==
    [][HeadsReplaced =>
          /\ db_heads'[cur] = Observed(cur)
          /\ \A r \in RefNames : <<cur, r>> \in hRefErrs => r \in db_heads'[cur]]_vars

\* The heads of a repository were replaced in a run in which
\* branch_index_update failed on one of its references and another reference,
\* listed by the run before, is gone from git: the first is listed, the
\* second is not.
C11_Witness ==
    /\ phase = "reflog" /\ cur = NoPath
    /\ db_repos["a"] # 0
    /\ <<"a", HeadMain>> \in hRefErrs /\ HeadMain \in db_heads["a"]
    /\ TagV1 \in hDb0.heads["a"] /\ TagV1 \notin db_heads["a"]

\* The ids of the records the store held when the run began.
IdsBefore == {hDb0.repos[p] : p \in Paths} \ {0}

\* A record that stays keeps its id.
IdStable ==
    \A p \in Paths : (db_repos[p] # 0 /\ db_repos'[p] # 0) => db_repos'[p] = db_repos[p]

\* At the end of a run without a project-list: a path that had a record and
\* is gone from disk has lost its index state (unless fetch_all or the delete
\* failed), and a record at a path that had none carries an id no record had
\* when the run began.
MoveHandled ==
    (phase = "done" /\ projects_list = NoList) =>
        \A p \in Paths :
            /\ (hDb0.repos[p] # 0 /\ disk[p] = "absent" /\ ~hStoreFault)
                  => IndexState(Db, p) = [id |-> 0, trees |-> NoTrees, tags |-> NoTags, heads |-> {}]
            /\ (hDb0.repos[p] = 0 /\ db_repos[p] # 0) => db_repos[p] \notin IdsBefore

\* C12: the id of a repository record never changes while the record stays
\* at its path, over any number of runs; and a run without a project-list
\* that finds a repository gone from its old path and present at a new one
\* deletes the index state of the old path and gives the new path an id that
\* differs from the old one.
C12_IdentityAcrossRuns ==
    MoveHandled /\ [][IdStable /\ MoveHandled']_vars

\* The end of the run that follows the move of the indexed repository a to
\* the path b: a is gone from the store, b has a record and the indexed tag
\* that moved with it, under an id that is not a's.
C12_Witness ==
    /\ phase = "done" /\ projects_list = NoList /\ runs = 2
    /\ disk["a"] = "absent" /\ disk["b"] = "ok"
    /\ hDb0.repos["a"] # 0 /\ hDb0.repos["b"] = 0
    /\ hDb0.trees["a"][HeadMain].counter > 0
    /\ db_repos["a"] = 0 /\ db_trees["a"] = NoTrees
    /\ db_repos["b"] # 0 /\ db_repos["b"] # hDb0.repos["a"]
    /\ db_trees["b"][TagV1].counter > 0

\* A top-level call has started at most two walks, and its forced
\* invocation began after exactly one.
WalksBounded ==
    /\ hWalks <= 2
    /\ (pc # "idle" /\ force_reindex) => (hWalks = IF pc = "chunks" THEN 2 ELSE 1)

\* The step after the last chunk of a walk: it does not end the call with an
\* error, and in the forced invocation it returns Ok instead of re-invoking.
WalkEnd ==
    (pc = "chunks" /\ revwalk = <<>>) =>
        /\ result' # "Err"
        /\ force_reindex => (pc' = "idle" /\ result' \in {"Ok", "Crashed"})
        /\ (~force_reindex /\ ~seen /\ pc' # "idle") => (pc' = "entry" /\ force_reindex')

\* C13: a top-level call of branch_index_update re-invokes itself with
\* force_reindex at most once, the forced invocation never re-invokes itself,
\* so a call makes at most two history walks; and a walk that ends without
\* the stored tip marker does not make the call return an error.
C13_BoundedSelfHealing ==
    WalksBounded /\ [][WalksBounded' /\ WalkEnd]_vars

\* A call that missed the marker of a tree of several records, rebuilt the
\* tree in a second walk of several chunks and returned Ok.
C13_Witness ==
    /\ pc = "idle" /\ result = "Ok" /\ force_reindex
    /\ hWalks = 2 /\ hWrites > 3
    /\ FetchLatestOne(hStart) \notin Reach(tip) \cup {NoCommit}

\* The commits a tree has records of.
Records(tree) == {tree.commits[k] : k \in DOMAIN tree.commits}

\* The tree the running call began on has a tip marker that the history of
\* the reference does not contain.
MarkerLost == FetchLatestOne(hStart) \notin Reach(tip) \cup {NoCommit}

\* C14: while and after a call indexes a history that does not contain the
\* stored tip marker, the tree is, in every store state, either the tree the
\* call began on or made of records of the new history only; the incremental
\* invocation leaves records and counter as they were, and records of the
\* new history appear only after the forced invocation dropped the tree.
C14_NoMixing ==
    ((pc # "idle" \/ IndexedOk) /\ MarkerLost) =>
        IF force_reindex
        THEN commit_tree = hStart \/ Records(commit_tree) \subseteq Reach(tip)
        ELSE commit_tree = hStart

\* Between two write batches of the forced rebuild of a tree of several
\* records whose marker the new history lacks.
C14_Witness ==
    /\ pc = "chunks" /\ force_reindex /\ MarkerLost
    /\ hStart.counter > 1
    /\ commit_tree.counter > 0 /\ revwalk # <<>>
    /\ Records(hStart) \cap Reach(tip) # {}

\* The commits the running walk has yielded so far.
Yielded == SubSeq(RevWalk(tip), 1, Len(RevWalk(tip)) - Len(revwalk))

\* The tree the running invocation started its walk on.
WalkBase == IF force_reindex THEN EmptyTree ELSE hStart

\* The tree as the write batches of the chunks yielded so far leave it.
Committed ==
    IF Yielded = <<>> THEN WalkBase
    ELSE Last(WalkTrace(Yielded, latest_indexed, FALSE, 0, tree_len, WalkBase).trees)

\* A step in which an error occurs while a chunk is processed.
ChunkFailure == pc = "chunks" /\ revwalk # <<>> /\ result' = "Err"

\* C15: when a git read or a store error occurs while chunk k of a walk is
\* processed, the call returns the error at once and writes nothing of chunk
\* k: the tree stays as the batches of chunks 1..k-1 left it, its records at
\* exactly the sequence numbers below the counter.
C15_FailureMidWalk ==
    [][ChunkFailure =>
          /\ pc' = "idle"
          /\ commit_tree' = commit_tree
          /\ commit_tree' = Committed
          /\ commit_tree'.counter = tree_len + i
          /\ DOMAIN commit_tree'.commits = 0..(commit_tree'.counter - 1)]_vars

\* A call that returned an error from a chunk after the batch of an earlier
\* chunk had inserted records.
C15_Witness ==
    /\ pc = "idle" /\ result = "Err"
    /\ revwalk # <<>> /\ i > 0
    /\ commit_tree.counter = tree_len + i

\* The position of commit c in walk, 0 when it is not there.
Position(walk, c) ==
    IF \E k \in 1..Len(walk) : walk[k] = c
    THEN CHOOSE k \in 1..Len(walk) : walk[k] = c
    ELSE 0

\* The commits yielded so far that follow the stored tip marker; all of them
\* when there is no marker, none while the marker has not been met.
AfterMarker ==
    IF latest_indexed = NoCommit THEN Yielded
    ELSE IF Position(Yielded, latest_indexed) = 0 THEN <<>>
    ELSE SubSeq(Yielded, Position(Yielded, latest_indexed) + 1, Len(Yielded))

\* C16: at every chunk boundary of a walk, the tree is the tree the walk
\* started on followed, from its length on and in walk order, by the commits
\* visited after the stored tip marker and by nothing else (neither the
\* commits before the marker nor the marker); with no stored marker, by every
\* commit visited, the first one at the sequence number equal to the length.
C16_ResumptionPoint ==
    pc = "chunks" =>
        /\ commit_tree = Appended(WalkBase, AfterMarker)
        /\ i = Len(AfterMarker)
        /\ tree_len = WalkBase.counter

\* The end of an incremental walk that met the marker of a tree of several
\* records past its first commit and inserted several commits after it.
C16_Witness ==
    /\ pc = "chunks" /\ revwalk = <<>>
    /\ latest_indexed # NoCommit /\ seen
    /\ tree_len > 1 /\ i > 1
    /\ Position(RevWalk(tip), latest_indexed) > 1

\* The commits reachable from the references of the repository.
ReachableCommits ==
    UNION {Reach(meta_refs[r]) : r \in {x \in DOMAIN meta_refs : PeelsToCommit(meta_refs[x])}}

\* The largest member of a non-empty set of integers.
Max(S) == CHOOSE x \in S : \A y \in S : x >= y

\* C17: last_modified of the record the metadata pass writes is the largest
\* committer timestamp among all the commits reachable from the references
\* of the repository, the ancestors of the tips included, and the epoch when
\* there is no commit.
C17_LastModified ==
    meta_written = "read" =>
        last_modified = IF ReachableCommits = {} THEN Epoch
                        ELSE Max({meta_when[c] : c \in ReachableCommits})

\* A buffer without its trailing newline.
Content(buffer) ==
    IF buffer # <<>> /\ buffer[Len(buffer)] = LF THEN SubSeq(buffer, 1, Len(buffer) - 1)
    ELSE buffer

\* The lines of the list file, each without its trailing newline.
Contents == [k \in 1..Len(Buffers(list_file)) |-> Content(Buffers(list_file)[k])]

\* The non-empty lines, each joined to the scan root.
NonEmptyJoined ==
    LET kept == SelectSeq(Contents, LAMBDA c : c # <<>>)
    IN [k \in 1..Len(kept) |-> Join(Root, kept[k])]

\* C18: once the list file is read, the candidates are the scan root joined
\* with each non-empty line, the line taken with only its trailing newline
\* removed: its last character is kept whatever it is, and an empty line
\* yields no candidate.
C18_ListFileDiscovery ==
    list_read = "read" => discovered_repos = NonEmptyJoined

\* The whole index state of p is deleted in the step.
Deleted(p) == db_repos[p] # 0 /\ db_repos'[p] = 0 /\ db_trees'[p] = NoTrees

\* C19: no step of a run changes the commit tree of a reference that does
\* not exist in git, short of deleting the whole repository; and when the
\* heads list of the repository is replaced, the name of such a reference is
\* not in it.
C19_DeletedRefTreeKept ==
    [][\A p \in Paths : \A r \in RefNames : refs[p][r] = "absent" =>
          /\ db_trees'[p][r] = db_trees[p][r] \/ Deleted(p)
          /\ (HeadsReplaced /\ p = cur) => r \notin db_heads'[p]]_vars

\* The end of a run that enumerated the references of a repository after
\* its indexed tag was deleted in git: the name is gone from the heads list,
\* the records and the counter of its tree are as the run found them.
C19_Witness ==
    /\ phase = "done" /\ "a" \in hEnumerated /\ db_repos["a"] # 0
    /\ refs["a"][TagV1] = "absent"
    /\ TagV1 \in hDb0.heads["a"] /\ TagV1 \notin db_heads["a"]
    /\ db_trees["a"][TagV1].counter > 0
    /\ db_trees["a"][TagV1] = hDb0.trees["a"][TagV1]

\* The names that were both in git and in the index when the last scan began.
InBoth == IndexedTags(hTagStart) \cap GitTags(git_tags)

\* C20: tag_index_scan, whether it returns Ok or an error, leaves the Tag
\* record of every name that is both in git and in the index as it was, also
\* when the tag was re-pointed to another tag object or replaced by a
\* lightweight tag under the same name.
C20_TagRecordKept ==
    tag_result \in {"Ok", "Err"} => \A n \in InBoth : tag_tree[n] = hTagStart[n]

\* After a scan that returned Ok: one name points to a tag object other than
\* the one its record was built from, another to a lightweight tag while its
\* record is still there.
C20_Witness ==
    /\ tag_result = "Ok"
    /\ \E n \in InBoth : PeelsToTag(git_tags[n]) /\ tag_tree[n] # TagRecord(git_tags[n])
    /\ \E n \in InBoth : git_tags[n] = "light" /\ tag_tree[n] # NoTag

====
